---- MODULE Spec2Model ----
(***************************************************************************)
(* Model of the Geant4 geometry construction of allpix-squared:            *)
(*   GeometryConstructionG4::Construct / init_materials / build_detectors  *)
(*   PassiveMaterialConstructionG4::build / addPoints                      *)
(*                                                                         *)
(* Numbers.  The code computes in double.  The model computes in integers: *)
(* a length is an integer number of base units, and the inputs are chosen  *)
(* so that every division the code performs (/2, *0.1, *1.1/2) is exact.   *)
(* world_margin_percentage is held in tenths (PctDen = 10), so 0.1 is 1.   *)
(* Angles are held in half-turns (the code multiplies by CLHEP::pi or uses *)
(* 360*CLHEP::deg = 2 half-turns).  Rounding of doubles is not modelled.   *)
(***************************************************************************)
EXTENDS Integers, Sequences, FiniteSets, TLC

VARIABLES
    config_,            \* GeometryConstructionG4::config_
    geo_manager_,       \* what GeometryManager returns: min/max coordinate, detectors
    materials_,         \* GeometryConstructionG4::materials_ (name -> handle)
    world_material_,    \* GeometryConstructionG4::world_material_
    solids_,            \* GeometryConstructionG4::solids_
    world_log_,         \* GeometryConstructionG4::world_log_
    world_phys_,        \* GeometryConstructionG4::world_phys_
    logical_volumes,    \* every G4LogicalVolume created by Construct, in order
    physical_volumes,   \* every G4PVPlacement / G4PVParameterised created by Construct
    external_objects,   \* Detector::setExternalObject store: detector name -> key -> object
    error,              \* the exception that left the last operation, or NoError
    pc,                 \* "init" | "constructed" | "failed"
    passive_config_,    \* PassiveMaterialConstructionG4::config_
    passive_solids_,    \* PassiveMaterialConstructionG4::solids_
    passive_volumes,    \* every G4LogicalVolume created by build()
    passive_placements, \* every G4PVPlacement created by build()
    passive_error,      \* the exception that left the last build(), or NoError
    passive_pc,         \* "init" | "built" | "failed"
    points_,            \* PassiveMaterialConstructionG4::points_
    returned_points,    \* the value the last addPoints() returned
    calls               \* number of addPoints() calls made

vars == <<config_, geo_manager_, materials_, world_material_, solids_, world_log_,
          world_phys_, logical_volumes, physical_volumes, external_objects, error, pc,
          passive_config_, passive_solids_, passive_volumes, passive_placements,
          passive_error, passive_pc, points_, returned_points, calls>>

geometry_vars == <<config_, geo_manager_, materials_, world_material_, solids_,
                   world_log_, world_phys_, logical_volumes, physical_volumes,
                   external_objects, error, pc>>

passive_vars == <<passive_config_, passive_solids_, passive_volumes,
                  passive_placements, passive_error, passive_pc, points_,
                  returned_points, calls>>

(***************************************************************************)
(* Bounds of the model.                                                    *)
(***************************************************************************)
\* coordinates reported by the geometry manager range over -MaxCoord..MaxCoord (times PctDen)
MaxCoord == 1
\* a detector model has at most MaxLayers support layers
MaxLayers == 1
\* addPoints() is called at most MaxCalls times on one passive item
MaxCalls == 2
\* the largest pixel count of a detector model on one axis
MaxPixels == 3

\* denominator of world_margin_percentage: the model holds the percentage in tenths
PctDen == 10

(***************************************************************************)
(* Small helpers.                                                          *)
(***************************************************************************)
Abs(x) == IF x < 0 THEN -x ELSE x

Max(a, b) == IF a < b THEN b ELSE a

Range(s) == {s[i] : i \in DOMAIN s}

NULL == "nullptr"

NoError == [type |-> "none", carries |-> <<>>]

\* Configuration: a section name and the keys present in the section.
Configuration(name, values) == [name |-> name, values |-> values]

\* Configuration::has
Has(config, key) == key \in DOMAIN config.values

\* Configuration::get<T>(key, default)
Get(config, key, default) == IF Has(config, key) THEN config.values[key] ELSE default

\* an optional key: absent, or present with one of the values
OptKey(key, values) == {<<>>} \cup {key :> v : v \in values}

(***************************************************************************)
(* Materials.  A handle is identified by the name Geant4 gives the         *)
(* material (G4Material::GetName), NULL is the null pointer.               *)
(***************************************************************************)
init_materials ==
    [n \in {"vacuum", "air", "silicon", "epoxy", "kapton", "copper", "solder"} |->
        CASE n = "vacuum"  -> "Vacuum"
          [] n = "air"     -> "G4_AIR"
          [] n = "silicon" -> "G4_Si"
          [] n = "epoxy"   -> "G4_PLEXIGLASS"
          [] n = "kapton"  -> "G4_KAPTON"
          [] n = "copper"  -> "G4_Cu"
          [] n = "solder"  -> "Solder"]

\* std::map::find(name) != end()
MaterialFound(materials, name) == name \in DOMAIN materials

\* std::map::operator[]: a name that is not in the map reads as a null pointer
MaterialAt(materials, name) == IF name \in DOMAIN materials THEN materials[name] ELSE NULL

(***************************************************************************)
(* Solids, logical volumes, placements.                                    *)
(***************************************************************************)
\* dims: G4Box <<hx, hy, hz>>; G4Tubs <<rmin, rmax, hz, sphi, dphi>>;
\* G4Sphere <<rmin, rmax, sphi, dphi, stheta, dtheta>>; boolean solids <<>>.
\* operands: the two solids a boolean solid points to; transform: its relative translation.
Solid(name, type, dims, operands, transform) ==
    [name |-> name, type |-> type, dims |-> dims, operands |-> operands,
     transform |-> transform]

G4Box(name, hx, hy, hz) == Solid(name, "G4Box", <<hx, hy, hz>>, <<>>, <<0, 0, 0>>)

G4Tubs(name, rmin, rmax, hz, sphi, dphi) ==
    Solid(name, "G4Tubs", <<rmin, rmax, hz, sphi, dphi>>, <<>>, <<0, 0, 0>>)

G4Sphere(name, rmin, rmax, sphi, dphi, stheta, dtheta) ==
    Solid(name, "G4Sphere", <<rmin, rmax, sphi, dphi, stheta, dtheta>>, <<>>, <<0, 0, 0>>)

G4SubtractionSolid(name, a, b, transform) ==
    Solid(name, "G4SubtractionSolid", <<>>, <<a, b>>, transform)

G4UnionSolid(name, a, b) == Solid(name, "G4UnionSolid", <<>>, <<a, b>>, <<0, 0, 0>>)

G4LogicalVolume(solid, material, name) ==
    [name |-> name, solid |-> solid, material |-> material]

\* A pointer that may be null is a sequence: <<>> is nullptr, <<x>> points to x.
\* rot: <<>> or the rotation; mother: <<>> (the world itself) or the mother logical volume.
G4PVPlacement(rot, pos, logical, name, mother) ==
    [name |-> name, type |-> "G4PVPlacement", logical |-> logical, mother |-> mother,
     rot |-> rot, pos |-> pos, count |-> 1, param |-> <<>>]

\* Parameterization2DG4(div_x, size_x, size_y, offset_x, offset_y, pos_z)
Parameterization2DG4(div_x, size_x, size_y, offset_x, offset_y, pos_z) ==
    [type |-> "Parameterization2DG4", div_x |-> div_x, size_x |-> size_x,
     size_y |-> size_y, offset_x |-> offset_x, offset_y |-> offset_y, pos_z |-> pos_z]

\* Parameterization2DG4::ComputeTransformation(copy_id, ...): the cell <<x, y>> of
\* the grid an instance index is placed in, rows of div_x cells along x
ComputeTransformation(param, copy_id) == <<copy_id % param.div_x, copy_id \div param.div_x>>

\* G4PVParameterised(name, logical, mother logical, axis, nReplicas, param)
G4PVParameterised(name, logical, mother, nReplicas, param) ==
    [name |-> name, type |-> "G4PVParameterised", logical |-> logical,
     mother |-> <<mother>>, rot |-> <<>>, pos |-> <<0, 0, 0>>, count |-> nReplicas,
     param |-> <<param>>]

\* Detector::setExternalObject(name, object) on the store of one detector
SetExternalObject(objects, key, object) ==
    [k \in DOMAIN objects \cup {key} |-> IF k = key THEN object ELSE objects[k]]

Sub3(a, b) == <<a[1] - b[1], a[2] - b[2], a[3] - b[3]>>

(***************************************************************************)
(* World sizing: GeometryConstructionG4::Construct, lines 70-95.           *)
(***************************************************************************)
\* half_world_size before the margin, one axis
HalfExtent(min_coord, max_coord, axis) == Max(Abs(min_coord[axis]), Abs(max_coord[axis]))

\* Margin with the comparison of line 82 turned round
MarginSmaller(h, margin_percentage, minimum_margin) ==
    LET add == (h * margin_percentage) \div PctDen
    IN  IF add > minimum_margin THEN minimum_margin ELSE add

\* the margin added on one axis; h * percentage is exact, h being a multiple of PctDen
Margin(h, margin_percentage, minimum_margin) ==
    LET add == (h * margin_percentage) \div PctDen
    IN  IF add < minimum_margin THEN minimum_margin ELSE add

\* HalfWorldSize with the margin of line 93 taken off instead of added
HalfWorldSizeMinus(min_coord, max_coord, margin_percentage, minimum_margin, axis) ==
    LET h == HalfExtent(min_coord, max_coord, axis)
    IN  h - Margin(h, margin_percentage, minimum_margin[axis])

\* half_world_size after the margin, one axis
HalfWorldSize(min_coord, max_coord, margin_percentage, minimum_margin, axis) ==
    LET h == HalfExtent(min_coord, max_coord, axis)
    IN  h + Margin(h, margin_percentage, minimum_margin[axis])


(***************************************************************************)
(* GeometryConstructionG4::build_detectors, lines 149-422.                 *)
(***************************************************************************)
\* std::make_pair("wrapper", "") ...: the .first of each name pair (lines 154-160)
wrapperName == "wrapper"

supportName == "support"

BoxName == "sensor"

PixelName == "pixel"

ChipName == "chip"

BumpName == "bump"

BumpBoxName == "bumpbox"

\* the .second of each name pair for the detector called name (lines 175-182);
\* PixelName.second is built from BoxName.first (line 179)
wrapperNameSecond(name) == wrapperName \o "_" \o name

supportNameSecond(name) == supportName \o "_" \o name

BoxNameSecond(name) == BoxName \o "_" \o name

PixelNameSecond(name) == BoxName \o "_" \o name

ChipNameSecond(name) == ChipName \o "_" \o name

BumpNameSecond(name) == BumpName \o "_" \o name

BumpBoxNameSecond(name) == BumpBoxName \o "_" \o name

\* the material the support logical volume is created with (line 323)
SupportMaterial(materials, layer) == materials["epoxy"]

\* half z-extent of the hole box of a support layer (line 304)
HoleHalfZ(layer) == layer.holeSize[3]

\* One iteration of the loop over the support layers (lines 290-341), on
\* st = [solids, logs, phys, error]; idx is support_idx.
BuildSupportLayer(materials, name, model, wrapper_log, layer, idx, st) ==
    LET support_box == G4Box(supportNameSecond(name) \o "_" \o ToString(idx),
                             layer.size[1] \div 2, layer.size[2] \div 2, layer.size[3] \div 2)
        hole_box == G4Box(supportNameSecond(name) \o "_hole_" \o ToString(idx),
                          layer.holeSize[1] \div 2, layer.holeSize[2] \div 2, HoleHalfZ(layer))
        subtraction_solid ==
            G4SubtractionSolid(supportNameSecond(name) \o "_subtraction_" \o ToString(idx),
                               support_box, hole_box, Sub3(layer.holeCenter, layer.center))
        support_solid == IF layer.hasHole THEN subtraction_solid ELSE support_box
        solids == IF layer.hasHole
                  THEN st.solids \o <<support_box, hole_box, subtraction_solid>>
                  ELSE Append(st.solids, support_box)
        support_log == G4LogicalVolume(support_solid, SupportMaterial(materials, layer),
                           supportNameSecond(name) \o "_log_" \o ToString(idx))
        support_phys == G4PVPlacement(<<>>, Sub3(layer.center, model.center), support_log,
                            supportNameSecond(name) \o "_phys_" \o ToString(idx),
                            <<wrapper_log>>)
    IN  IF ~MaterialFound(materials, layer.material)
        THEN [st EXCEPT !.solids = solids,
                        !.error = [type |-> "ModuleError", carries |-> <<layer.material>>]]
        ELSE [st EXCEPT !.solids = solids,
                        !.logs = Append(@, support_log),
                        !.phys = Append(@, support_phys)]

RECURSIVE BuildSupportLayers(_, _, _, _, _, _)
\* the loop over model->getSupportLayers(), left at the first exception
BuildSupportLayers(materials, name, model, wrapper_log, idx, st) ==
    IF idx >= Len(model.supportLayers) \/ st.error # NoError
    THEN st
    ELSE BuildSupportLayers(materials, name, model, wrapper_log, idx + 1,
             BuildSupportLayer(materials, name, model, wrapper_log,
                               model.supportLayers[idx + 1], idx, st))

\* IsHybrid taking every model for a hybrid one
IsHybridAlways(model) == TRUE

\* std::dynamic_pointer_cast<HybridPixelDetectorModel>(model) != nullptr (lines 346-347)
IsHybrid(model) == model.hybrid

\* PixelGridDivisor taking the y pixel count
PixelGridDivisorY(model) == model.nPixels[2]

\* the divisor handed to Parameterization2DG4 (lines 241 and 398)
PixelGridDivisor(model) == model.nPixels[1]

\* PixelReplicas adding the two pixel counts
PixelReplicasSum(model) == model.nPixels[1] + model.nPixels[2]

\* the number of replicas handed to G4PVParameterised (lines 253 and 413)
PixelReplicas(model) == model.nPixels[1] * model.nPixels[2]

\* The bump bonds of a hybrid pixel detector (lines 345-416), on
\* acc = [solids, lvs, pvs, ext, error] with ext the store of this detector.
BuildBumps(materials, world_material, name, model, wrapper_log, acc) ==
    LET bump_sphere == G4Sphere(BumpName \o "sphere", 0, model.bumpSphereRadius, 0, 2, 0, 2)
        bump_tube == G4Tubs(BumpName \o "tube", 0, model.bumpCylinderRadius,
                            model.bumpHeight \div 2, 0, 2)
        bump == G4UnionSolid(BumpName, bump_sphere, bump_tube)
        bump_box == G4Box(BumpBoxName, model.sensorSize[1] \div 2,
                          model.sensorSize[2] \div 2, model.bumpHeight \div 2)
        bumps_wrapper_log == G4LogicalVolume(bump_box, world_material,
                                             BumpBoxNameSecond(name) \o "_log")
        bumps_wrapper_phys == G4PVPlacement(<<>>, Sub3(model.bumpsCenter, model.center),
                                  bumps_wrapper_log, BumpBoxNameSecond(name) \o "_phys",
                                  <<wrapper_log>>)
        bumps_cell_log == G4LogicalVolume(bump, materials["solder"],
                                          BumpBoxNameSecond(name) \o "_log")
        bumps_param_internal ==
            Parameterization2DG4(PixelGridDivisor(model), model.pixelSize[1],
                model.pixelSize[2],
                -((model.nPixels[1] * model.pixelSize[1]) \div 2)
                    + (model.bumpsCenter[1] - model.center[1]),
                -((model.nPixels[2] * model.pixelSize[2]) \div 2)
                    + (model.bumpsCenter[2] - model.center[2]),
                0)
        bumps_param == G4PVParameterised(BumpNameSecond(name) \o "phys", bumps_cell_log,
                           bumps_wrapper_log, PixelReplicas(model),
                           bumps_param_internal)
        ext1 == SetExternalObject(acc.ext, "bumps_wrapper_log", bumps_wrapper_log)
        ext2 == SetExternalObject(ext1, "bumps_wrapper_phys", bumps_wrapper_phys)
        ext3 == SetExternalObject(ext2, "bumps_cell_log", bumps_cell_log)
        ext4 == SetExternalObject(ext3, "bumps_param", bumps_param_internal)
        ext5 == SetExternalObject(ext4, "bumps_param", bumps_param)
    IN  [acc EXCEPT !.solids = @ \o <<bump_sphere, bump_tube, bump, bump_box>>,
                    !.lvs = @ \o <<bumps_wrapper_log, bumps_cell_log>>,
                    !.pvs = @ \o <<bumps_wrapper_phys, bumps_param>>,
                    !.ext = ext5]

\* One iteration of the loop over the detectors (lines 166-421), on
\* acc = [solids, lvs, pvs, ext, error]; ext is the store of this detector.
\* getChipSize().z() > 1e-9 is a chip thickness > 0 at the model's resolution.
BuildDetector(materials, world_material, world_log, detector, acc) ==
    LET model == detector.model
        name == detector.name
        wrapper_box == G4Box(wrapperNameSecond(name), model.size[1] \div 2,
                             model.size[2] \div 2, model.size[3] \div 2)
        wrapper_log == G4LogicalVolume(wrapper_box, world_material,
                                       wrapperNameSecond(name) \o "_log")
        rotWrapper == detector.orientation
        wrapper_phys == G4PVPlacement(<<rotWrapper>>, detector.position, wrapper_log,
                            wrapperNameSecond(name) \o "_phys", <<world_log>>)
        sensor_box == G4Box(BoxNameSecond(name), model.sensorSize[1] \div 2,
                            model.sensorSize[2] \div 2, model.sensorSize[3] \div 2)
        sensor_log == G4LogicalVolume(sensor_box, materials["silicon"],
                                      BoxNameSecond(name) \o "_log")
        sensor_phys == G4PVPlacement(<<>>, Sub3(model.sensorCenter, model.center),
                           sensor_log, BoxNameSecond(name) \o "_phys", <<wrapper_log>>)
        pixel_box == G4Box(PixelNameSecond(name), model.pixelSize[1] \div 2,
                           model.pixelSize[2] \div 2, model.sensorSize[3] \div 2)
        pixel_log == G4LogicalVolume(pixel_box, materials["silicon"], PixelNameSecond(name))
        pixel_param_internal ==
            Parameterization2DG4(PixelGridDivisor(model), model.pixelSize[1],
                                 model.pixelSize[2],
                                 -(model.gridSize[1] \div 2), -(model.gridSize[2] \div 2), 0)
        pixel_param == G4PVParameterised(PixelNameSecond(name) \o "phys", pixel_log,
                           sensor_log, PixelReplicas(model),
                           pixel_param_internal)
        hasChip == model.chipSize[3] > 0
        chip_box == G4Box(ChipNameSecond(name), model.chipSize[1] \div 2,
                          model.chipSize[2] \div 2, model.chipSize[3] \div 2)
        chip_log == G4LogicalVolume(chip_box, materials["silicon"],
                                    ChipNameSecond(name) \o "_log")
        chip_phys == G4PVPlacement(<<>>, Sub3(model.chipCenter, model.center), chip_log,
                         ChipNameSecond(name) \o "_phys", <<wrapper_log>>)
        ext1 == SetExternalObject(acc.ext, "wrapper_log", wrapper_log)
        ext2 == SetExternalObject(ext1, "rotation_matrix", rotWrapper)
        ext3 == SetExternalObject(ext2, "wrapper_phys", wrapper_phys)
        ext4 == SetExternalObject(ext3, "sensor_log", sensor_log)
        ext5 == SetExternalObject(ext4, "sensor_phys", sensor_phys)
        ext6 == SetExternalObject(ext5, "pixel_log", pixel_log)
        ext7 == SetExternalObject(ext6, "pixel_param_internal", pixel_param_internal)
        ext8 == SetExternalObject(ext7, "pixel_param", pixel_param)
        ext9 == IF hasChip
                THEN SetExternalObject(SetExternalObject(ext8, "chip_log", chip_log),
                                       "chip_phys", chip_phys)
                ELSE ext8
        solids1 == acc.solids \o <<wrapper_box, sensor_box, pixel_box>>
                       \o (IF hasChip THEN <<chip_box>> ELSE <<>>)
        lvs1 == acc.lvs \o <<wrapper_log, sensor_log, pixel_log>>
                    \o (IF hasChip THEN <<chip_log>> ELSE <<>>)
        pvs1 == acc.pvs \o <<wrapper_phys, sensor_phys, pixel_param>>
                    \o (IF hasChip THEN <<chip_phys>> ELSE <<>>)
        sup == BuildSupportLayers(materials, name, model, wrapper_log, 0,
                   [solids |-> solids1, logs |-> <<>>, phys |-> <<>>, error |-> NoError])
        ext10 == SetExternalObject(ext9, "supports_log", sup.logs)
        ext11 == SetExternalObject(ext10, "supports_phys", sup.phys)
        afterSupports == [solids |-> sup.solids, lvs |-> lvs1 \o sup.logs,
                          pvs |-> pvs1 \o sup.phys, ext |-> ext11, error |-> NoError]
    IN  IF sup.error # NoError
        THEN [solids |-> sup.solids, lvs |-> lvs1 \o sup.logs, pvs |-> pvs1 \o sup.phys,
              ext |-> ext9, error |-> sup.error]
        ELSE IF IsHybrid(model)
             THEN BuildBumps(materials, world_material, name, model, wrapper_log,
                             afterSupports)
             ELSE afterSupports

\* BuildDetectors leaving the loop after the first detector
BuildDetectorsFirst(materials, world_material, world_log, detectors, i, st) ==
    IF i > Len(detectors) \/ i > 1
    THEN st
    ELSE LET d == detectors[i]
             r == BuildDetector(materials, world_material, world_log, d,
                      [solids |-> st.solids, lvs |-> st.lvs, pvs |-> st.pvs,
                       ext |-> st.external[d.name], error |-> NoError])
         IN  [solids |-> r.solids, lvs |-> r.lvs, pvs |-> r.pvs,
              external |-> [st.external EXCEPT ![d.name] = r.ext],
              error |-> r.error]

RECURSIVE BuildDetectors(_, _, _, _, _, _)
\* the loop over geo_manager_->getDetectors(), left at the first exception;
\* st = [solids, lvs, pvs, external, error], external the stores of all detectors
BuildDetectors(materials, world_material, world_log, detectors, i, st) ==
    IF i > Len(detectors) \/ st.error # NoError
    THEN st
    ELSE LET d == detectors[i]
             r == BuildDetector(materials, world_material, world_log, d,
                      [solids |-> st.solids, lvs |-> st.lvs, pvs |-> st.pvs,
                       ext |-> st.external[d.name], error |-> NoError])
         IN  BuildDetectors(materials, world_material, world_log, detectors, i + 1,
                 [solids |-> r.solids, lvs |-> r.lvs, pvs |-> r.pvs,
                  external |-> [st.external EXCEPT ![d.name] = r.ext],
                  error |-> r.error])

build_detectors(materials, world_material, world_log, detectors, solids, external) ==
    BuildDetectors(materials, world_material, world_log, detectors, 1,
        [solids |-> solids, lvs |-> <<>>, pvs |-> <<>>, external |-> external,
         error |-> NoError])

(***************************************************************************)
(* GeometryConstructionG4::Construct, lines 57-115.                        *)
(***************************************************************************)
\* the world material name read from the configuration (line 62)
WorldMaterialName(config) == Get(config, "world_material", "air")

\* WorldMaterial that ignores the configured name
WorldMaterialAir(materials, config) == materials["air"]

\* the material the World logical volume is created with (lines 67, 102)
WorldMaterial(materials, config) == materials[WorldMaterialName(config)]

\* the half-extents of the World box (lines 71-95, 100)
WorldHalfSize(config, geo) ==
    [axis \in 1..3 |->
        HalfWorldSize(geo.min, geo.max, Get(config, "world_margin_percentage", 1),
                      Get(config, "world_minimum_margin", <<0, 0, 0>>), axis)]

Construct ==
    /\ pc = "init"
    /\ materials_' = init_materials
    /\ IF ~MaterialFound(materials_', WorldMaterialName(config_))
       THEN /\ error' = [type |-> "InvalidValueError",
                         carries |-> <<config_.name, "world_material">>]
            /\ pc' = "failed"
            /\ UNCHANGED <<world_material_, solids_, world_log_, world_phys_,
                           logical_volumes, physical_volumes, external_objects>>
       ELSE LET half_world_size == WorldHalfSize(config_, geo_manager_)
                world_box == G4Box("World", half_world_size[1], half_world_size[2],
                                   half_world_size[3])
                world_material == WorldMaterial(materials_', config_)
                world_log == G4LogicalVolume(world_box, world_material, "World")
                built == build_detectors(materials_', world_material, world_log,
                             geo_manager_.detectors, Append(solids_, world_box),
                             external_objects)
            IN  /\ world_material_' = world_material
                /\ world_log_' = <<world_log>>
                /\ world_phys_' = <<G4PVPlacement(<<>>, <<0, 0, 0>>, world_log, "World", <<>>)>>
                /\ solids_' = built.solids
                /\ logical_volumes' = <<world_log>> \o built.lvs
                /\ physical_volumes' = world_phys_' \o built.pvs
                /\ external_objects' = built.external
                /\ error' = built.error
                /\ pc' = IF built.error = NoError THEN "constructed" ELSE "failed"
    /\ UNCHANGED <<config_, geo_manager_>>
    /\ UNCHANGED passive_vars

(***************************************************************************)
(* PassiveMaterialConstructionG4::build, lines 62-257.                     *)
(***************************************************************************)
\* std::transform(..., ::tolower) on the material names the model uses
ToLower(str) ==
    CASE str = "Vacuum"  -> "vacuum"
      [] str = "G4_AIR"  -> "g4_air"
      [] str = "G4_Si"   -> "g4_si"
      [] str = "Kapton"  -> "kapton"
      [] str = "COPPER"  -> "copper"
      [] OTHER           -> str

\* the material name build() looks up for the shell volume (lines 70-78)
PassiveMaterialName(config, world_log) ==
    ToLower(Get(config, "material", world_log.material))

\* materials_[passive_material]: the handle the shell volume is created with
PassiveMaterial(materials, config, world_log) ==
    MaterialAt(materials, PassiveMaterialName(config, world_log))

\* materials_[filling_material]: the handle the filling volume is created with
FillingMaterial(materials, config) ==
    MaterialAt(materials, Get(config, "filling_material", ""))

OrientationModes == {"zyx", "xyz", "zxz"}

\* OrientationMode reading a mode it does not know as xyz
OrientationModeLenient(config) ==
    IF Get(config, "orientation_mode", "xyz") \in OrientationModes
    THEN Get(config, "orientation_mode", "xyz")
    ELSE "xyz"

\* the orientation mode read from the configuration (line 84)
OrientationMode(config) == Get(config, "orientation_mode", "xyz")

\* the rotation of lines 82-100, held as the ROOT constructor calls that make it
Orientation(mode, v) ==
    CASE mode = "zyx" -> <<[rotation |-> "RotationZYX", angles |-> <<v[1], v[2], v[3]>>]>>
      [] mode = "xyz" -> <<[rotation |-> "RotationZ", angles |-> <<v[3]>>],
                           [rotation |-> "RotationY", angles |-> <<v[2]>>],
                           [rotation |-> "RotationX", angles |-> <<v[1]>>]>>
      [] mode = "zxz" -> <<[rotation |-> "EulerAngles", angles |-> <<v[1], v[2], v[3]>>]>>

\* the solids an item of type tube creates (lines 181-188); 1.1 * length / 2 is
\* exact, length being a multiple of 20
TubeOuterVolume(name, outer, length) ==
    G4Box(name \o "_outer_volume", outer[1] \div 2, outer[2] \div 2, length \div 2)

TubeInnerVolume(name, inner, length) ==
    G4Box(name \o "_inner_volume", inner[1] \div 2, inner[2] \div 2, (11 * length) \div 20)

\* the solids build() appends to solids_ for the shell of a tube (line 189)
TubePushed(outer_volume, inner_volume, final_volume) == <<final_volume>>

\* TubeDimensionsInvalid looking at the x axis only
TubeDimensionsInvalidX(inner_diameter, outer_diameter) ==
    inner_diameter[1] >= outer_diameter[1]

\* the condition build() throws on for a tube (line 176)
TubeDimensionsInvalid(inner_diameter, outer_diameter) ==
    \/ inner_diameter[1] >= outer_diameter[1]
    \/ inner_diameter[2] >= outer_diameter[2]

\* What build() creates: [solids, volumes, placements, error]; solids are those
\* appended to solids_.
BuildPassive(config, world_log, materials) ==
    LET name == config.name
        position == Get(config, "position", <<0, 0, 0>>)
        material == PassiveMaterial(materials, config, world_log)
        orientation_mode == OrientationMode(config)
        transform_phys == Orientation(orientation_mode,
                                      Get(config, "orientation", <<0, 0, 0>>))
        type == config.values["type"]
        filling_material == Get(config, "filling_material", "")
        filling == FillingMaterial(materials, config)
        Place(log, pname) == G4PVPlacement(transform_phys, position, log, pname, <<world_log>>)
        Result(solids, volumes) ==
            [solids |-> solids, volumes |-> volumes,
             placements |-> [i \in DOMAIN volumes |->
                                Place(volumes[i].log, volumes[i].phys)],
             error |-> NoError]
        Vol(solid, mat, lname, pname) ==
            [log |-> G4LogicalVolume(solid, mat, lname), phys |-> pname]
        \* box (lines 112-124)
        box_size == Get(config, "size", <<0, 0>>)
        box_volume == G4Box(name \o "_volume", box_size[1] \div 2, box_size[2] \div 2,
                            Get(config, "thickness", 0) \div 2)
        \* cylinder (lines 126-170)
        cylinder_inner_radius == Get(config, "inner_radius", 0)
        cylinder_height == Get(config, "height", 0)
        cylinder_volume == G4Tubs(name \o "_volume", cylinder_inner_radius,
                               Get(config, "outer_radius", 0), cylinder_height \div 2,
                               Get(config, "starting_angle", 0), Get(config, "arc_length", 0))
        cylinder_filling_volume ==
            G4Tubs(name \o "_filling_volume", 0, cylinder_inner_radius, cylinder_height,
                   Get(config, "starting_angle", 0), Get(config, "arc_length", 0))
        \* tube (lines 172-210)
        tube_outer_diameter == Get(config, "outer_diameter", <<0, 0>>)
        tube_inner_diameter == Get(config, "inner_diameter", <<0, 0>>)
        tube_length == Get(config, "length", 0)
        tube_outer_volume == TubeOuterVolume(name, tube_outer_diameter, tube_length)
        tube_inner_volume == TubeInnerVolume(name, tube_inner_diameter, tube_length)
        tube_final_volume == G4SubtractionSolid(name \o "_final_volume", tube_outer_volume,
                                 tube_inner_volume, <<0, 0, 0>>)
        tube_filling_volume == G4Box(name \o "_filling_volume", tube_inner_diameter[1] \div 2,
                                   tube_inner_diameter[2] \div 2, tube_length \div 2)
        \* sphere (lines 212-256)
        sphere_inner_radius == Get(config, "inner_radius", 0)
        sphere_volume == G4Sphere(name \o "_volume", sphere_inner_radius,
                             Get(config, "outer_radius", 0),
                             Get(config, "starting_angle_phi", 0),
                             Get(config, "arc_length_phi", 2),
                             Get(config, "starting_angle_theta", 0),
                             Get(config, "arc_length_theta", 1))
        sphere_filling_volume ==
            G4Sphere(name \o "_filling_volume", 0, sphere_inner_radius,
                     Get(config, "starting_angle_phi", 0), Get(config, "arc_length_phi", 2),
                     Get(config, "starting_angle_theta", 0),
                     Get(config, "arc_length_theta", 1))
        Failed(err) == [solids |-> <<>>, volumes |-> <<>>,
                        placements |-> <<>>, error |-> err]
    IN  IF orientation_mode \notin OrientationModes
        THEN Failed([type |-> "InvalidValueError",
                     carries |-> <<config.name, "orientation_mode">>])
        ELSE CASE type = "box" ->
                    Result(<<box_volume>>,
                           <<Vol(box_volume, material, name \o "_log", name \o "_phys")>>)
               [] type = "cylinder" ->
                    IF filling_material # ""
                    THEN Result(<<cylinder_volume, cylinder_filling_volume>>,
                                <<Vol(cylinder_volume, material, name \o "_log",
                                      name \o "_phys"),
                                  Vol(cylinder_filling_volume, filling,
                                      name \o "_filling_log", name \o "_filling_phys")>>)
                    ELSE Result(<<cylinder_volume>>,
                                <<Vol(cylinder_volume, material, name \o "_log",
                                      name \o "_phys")>>)
               [] type = "tube" ->
                    IF TubeDimensionsInvalid(tube_inner_diameter, tube_outer_diameter)
                    THEN Failed([type |-> "ModuleError", carries |-> <<name>>])
                    ELSE LET pushed == TubePushed(tube_outer_volume, tube_inner_volume,
                                                  tube_final_volume)
                         IN  IF filling_material # ""
                             THEN Result(Append(pushed, tube_filling_volume),
                                         <<Vol(tube_final_volume, material, name \o "_log",
                                               name \o "_phys"),
                                           Vol(tube_filling_volume, filling,
                                               name \o "filling_log",
                                               name \o "filling_phys")>>)
                             ELSE Result(pushed,
                                         <<Vol(tube_final_volume, material, name \o "_log",
                                               name \o "_phys")>>)
               [] type = "sphere" ->
                    IF filling_material # ""
                    THEN Result(<<sphere_volume, sphere_filling_volume>>,
                                <<Vol(sphere_volume, material, name \o "_log",
                                      name \o "_phys"),
                                  Vol(sphere_filling_volume, filling,
                                      name \o "_filling_log", name \o "_filling_phys")>>)
                    ELSE Result(<<sphere_volume>>,
                                <<Vol(sphere_volume, material, name \o "_log",
                                      name \o "_phys")>>)

\* build(world_log, materials_), called once the world has been constructed
build ==
    /\ pc = "constructed"
    /\ passive_pc = "init"
    /\ Has(passive_config_, "type")
    /\ LET r == BuildPassive(passive_config_, world_log_[1], materials_)
       IN  /\ passive_solids_' = passive_solids_ \o r.solids
           /\ passive_volumes' = [i \in DOMAIN r.volumes |-> r.volumes[i].log]
           /\ passive_placements' = r.placements
           /\ passive_error' = r.error
           /\ passive_pc' = IF r.error = NoError THEN "built" ELSE "failed"
    /\ UNCHANGED <<passive_config_, points_, returned_points, calls>>
    /\ UNCHANGED geometry_vars

(***************************************************************************)
(* PassiveMaterialConstructionG4::addPoints, lines 259-304.                *)
(***************************************************************************)
offset_x == <<1, 1, 1, 1, -1, -1, -1, -1>>

offset_y == <<1, 1, -1, -1, 1, 1, -1, -1>>

offset_z == <<1, -1, 1, -1, 1, -1, 1, -1>>

\* the half-extents of the bounding box addPoints() uses for the item
BoundingHalfSize(config) ==
    LET type == config.values["type"]
    IN  CASE type = "box" ->
                <<Get(config, "size", <<0, 0>>)[1] \div 2,
                  Get(config, "size", <<0, 0>>)[2] \div 2,
                  Get(config, "thickness", 0) \div 2>>
          [] type = "tube" ->
                <<Get(config, "outer_diameter", <<0, 0>>)[1] \div 2,
                  Get(config, "outer_diameter", <<0, 0>>)[2] \div 2,
                  Get(config, "length", 0) \div 2>>
          [] type = "cylinder" ->
                <<Get(config, "outer_radius", 0), Get(config, "outer_radius", 0),
                  Get(config, "height", 0) \div 2>>
          [] type = "sphere" ->
                <<Get(config, "outer_radius", 0), Get(config, "outer_radius", 0),
                  Get(config, "outer_radius", 0)>>

\* the eight points one call emplaces
CornerPoints(config) ==
    LET location == Get(config, "position", <<0, 0, 0>>)
        half == BoundingHalfSize(config)
    IN  [i \in 1..8 |-> <<location[1] + offset_x[i] * half[1],
                          location[2] + offset_y[i] * half[2],
                          location[3] + offset_z[i] * half[3]>>]

addPoints ==
    /\ calls < MaxCalls
    /\ Has(passive_config_, "type")
    /\ points_' = points_ \o CornerPoints(passive_config_)
    /\ returned_points' = points_'
    /\ calls' = calls + 1
    /\ UNCHANGED <<passive_config_, passive_solids_, passive_volumes, passive_placements,
                   passive_error, passive_pc>>
    /\ UNCHANGED geometry_vars

(***************************************************************************)
(* The inputs: configurations, detector models, geometry-manager answers.  *)
(***************************************************************************)
Coords == {k * PctDen : k \in -MaxCoord..MaxCoord}

\* (minimum, maximum) coordinate on one axis
AxisRanges == {r \in Coords \X Coords : r[1] <= r[2]}

Percentages == {-5, 0, 10}

MinimumMargins == {<<5, 0, -5>>, <<0, -5, 5>>, <<-5, 5, 0>>}

WorldMaterialNames == {"vacuum", "iron"}

\* support layers: thickness 20; a hole, when there is one, of z-size 10 or 20
SupportLayers ==
    {[size |-> <<200, 200, 20>>, center |-> <<0, 0, -80>>, hasHole |-> hole[1],
      holeSize |-> <<100, 100, hole[2]>>, holeCenter |-> <<20, 0, -80>>, material |-> m] :
        hole \in {<<FALSE, 0>>, <<TRUE, 10>>, <<TRUE, 20>>},
        m \in {"epoxy", "kapton", "g10"}}

RECURSIVE SeqsUpTo(_, _)
\* the sequences over S of length at most n
SeqsUpTo(S, n) ==
    IF n = 0 THEN {<<>>}
    ELSE LET shorter == SeqsUpTo(S, n - 1)
         IN  shorter \cup {Append(q, x) : q \in {t \in shorter : Len(t) = n - 1}, x \in S}

DetectorModel(hybrid, chipZ, layers) ==
    [hybrid |-> hybrid, size |-> <<400, 400, 200>>, center |-> <<0, 0, 0>>,
     sensorSize |-> <<300, 300, 100>>, sensorCenter |-> <<0, 0, 50>>,
     pixelSize |-> <<50, 50>>, nPixels |-> <<2, 3>>, gridSize |-> <<100, 150, 0>>,
     chipSize |-> <<300, 300, chipZ>>, chipCenter |-> <<0, 0, -40>>,
     supportLayers |-> layers, bumpHeight |-> 20, bumpSphereRadius |-> 8,
     bumpCylinderRadius |-> 4, bumpsCenter |-> <<10, 0, -10>>]

DetectorModels ==
    {DetectorModel(h, c, l) : h \in BOOLEAN, c \in {0, 40}, l \in SeqsUpTo(SupportLayers, MaxLayers)}

\* the models a second detector of the setup has
SimpleModels == {DetectorModel(h, 40, <<>>) : h \in BOOLEAN}

DetectorNames == {"d1", "d2"}

Detector(name, model) ==
    [name |-> name, model |-> model, position |-> <<0, 0, 0>>, orientation |-> <<0, 0, 0>>]

\* one detector of any model, alone or with a second detector before or after it
DetectorLists ==
    {<<Detector(n, m)>> : n \in DetectorNames, m \in DetectorModels}
    \cup {<<Detector(n[1], m), Detector(n[2], e)>> :
            n \in {x \in DetectorNames \X DetectorNames : x[1] # x[2]},
            m \in DetectorModels, e \in SimpleModels}
    \cup {<<Detector(n[1], e), Detector(n[2], m)>> :
            n \in {x \in DetectorNames \X DetectorNames : x[1] # x[2]},
            m \in DetectorModels, e \in SimpleModels}

\* a model of the given pixel count; getGridSize() is the count times the pitch
PixelCounts == (-1 .. MaxPixels) \X (-1 .. MaxPixels)

PixelModel(hybrid, nPixels) ==
    LET model == DetectorModel(hybrid, 40, <<>>)
    IN  [model EXCEPT !.nPixels = nPixels,
                      !.gridSize = <<nPixels[1] * model.pixelSize[1],
                                     nPixels[2] * model.pixelSize[2], 0>>]

PixelModels == {PixelModel(h, n) : h \in BOOLEAN, n \in PixelCounts}

DefaultDetectors == <<Detector("d1", DetectorModel(FALSE, 40, <<>>))>>

DefaultGeometry ==
    [min |-> <<-200, -200, -100>>, max |-> <<200, 200, 100>>, detectors |-> DefaultDetectors]

\* a setup without passive material: no section, so no build() and no addPoints()
NoPassive == Configuration("", <<>>)

PassiveDimensions ==
    {("type" :> "box") @@ ("thickness" :> 20) @@ a : a \in OptKey("size", {<<100, 100>>})}
    \cup {("type" :> "tube") @@ ("outer_diameter" :> <<40, 40>>) @@ b @@ c :
        b \in OptKey("inner_diameter", {<<20, 20>>, <<40, 20>>, <<20, 60>>}),
        c \in OptKey("length", {20, -20})}
    \cup {("type" :> "cylinder") @@ ("outer_radius" :> 20) @@ ("arc_length" :> 2) @@ a @@ c :
        a \in OptKey("inner_radius", {10}), c \in OptKey("height", {20})}
    \cup {("type" :> "sphere") @@ ("outer_radius" :> 20) @@ a :
        a \in OptKey("inner_radius", {10})}

PassiveConfigurations ==
    {Configuration("pipe", d @@ m @@ f @@ o @@ p) :
        d \in PassiveDimensions,
        m \in OptKey("material", {"Kapton", "unobtainium"}),
        f \in OptKey("filling_material", {"air", "unobtainium"}),
        o \in OptKey("orientation_mode", {"zxz", "yxz"}),
        p \in OptKey("position", {<<0, 0, 50>>})}

InitFresh ==
    /\ materials_ = <<>>
    /\ world_material_ = NULL
    /\ solids_ = <<>>
    /\ world_log_ = <<>>
    /\ world_phys_ = <<>>
    /\ logical_volumes = <<>>
    /\ physical_volumes = <<>>
    /\ external_objects = [n \in {geo_manager_.detectors[i].name :
                                    i \in DOMAIN geo_manager_.detectors} |-> <<>>]
    /\ error = NoError
    /\ pc = "init"
    /\ passive_solids_ = <<>>
    /\ passive_volumes = <<>>
    /\ passive_placements = <<>>
    /\ passive_error = NoError
    /\ passive_pc = "init"
    /\ points_ = <<>>
    /\ returned_points = <<>>
    /\ calls = 0

\* any world extent and any margins, around the default detector (around nothing
\* when the extent is zero on every axis)
InitWorld ==
    /\ config_ \in {Configuration("GeometryBuilderGeant4", p @@ m) :
                        p \in OptKey("world_margin_percentage", Percentages),
                        m \in OptKey("world_minimum_margin", MinimumMargins)}
    /\ geo_manager_ \in {[min |-> <<x[1], y[1], z[1]>>, max |-> <<x[2], y[2], z[2]>>,
                          detectors |-> IF {x, y, z} = {<<0, 0>>}
                                        THEN <<>> ELSE DefaultDetectors] :
                            x \in AxisRanges, y \in AxisRanges, z \in AxisRanges}
    /\ passive_config_ = NoPassive

\* any list of detectors in the default world
InitDetectors ==
    /\ config_ = Configuration("GeometryBuilderGeant4", <<>>)
    /\ geo_manager_ \in {[DefaultGeometry EXCEPT !.detectors = l] : l \in DetectorLists}
    /\ passive_config_ = NoPassive

\* any passive item and any world material, around the default detector
InitPassive ==
    /\ config_ \in {Configuration("GeometryBuilderGeant4", w) :
                        w \in OptKey("world_material", WorldMaterialNames)}
    /\ geo_manager_ = DefaultGeometry
    /\ passive_config_ \in PassiveConfigurations

\* one detector of any pixel count in the default world
InitPixels ==
    /\ config_ = Configuration("GeometryBuilderGeant4", <<>>)
    /\ geo_manager_ \in {[DefaultGeometry EXCEPT !.detectors = <<Detector("d1", m)>>] :
                            m \in PixelModels}
    /\ passive_config_ = NoPassive

Init ==
    /\ InitWorld \/ InitDetectors \/ InitPixels \/ InitPassive
    /\ InitFresh

Next ==
    \/ Construct
    \/ build
    \/ addPoints

Spec == Init /\ [][Next]_vars

(***************************************************************************)
(* Properties.                                                             *)
(***************************************************************************)
\* the World box, once Construct has created it
WorldBox == world_log_[1].solid

WorldBuilt == pc # "init" /\ world_log_ # <<>>

ConfiguredPercentage == Get(config_, "world_margin_percentage", 1)

ConfiguredMinimumMargin == Get(config_, "world_minimum_margin", <<0, 0, 0>>)

\* max(|min|, |max|) on one axis of the coordinates the geometry manager reports
ReportedExtent(axis) ==
    LET a == Abs(geo_manager_.min[axis])
        b == Abs(geo_manager_.max[axis])
    IN  IF a >= b THEN a ELSE b

\* C1: the World box Construct() builds has, on each axis, the half-extent
\* h + max(h * world_margin_percentage, world_minimum_margin[axis]) with
\* h = max(|min[axis]|, |max[axis]|); it is the first solid of the solid list.
\* (Stated in tenths of a unit, the percentage being held in tenths.)
C1_WorldHalfExtent ==
    WorldBuilt =>
        /\ solids_[1] = WorldBox
        /\ WorldBox.name = "World" /\ WorldBox.type = "G4Box"
        /\ \A axis \in 1..3 :
              LET h == ReportedExtent(axis)
                  byPercentage == h * ConfiguredPercentage
                  byMinimum == ConfiguredMinimumMargin[axis] * PctDen
              IN  WorldBox.dims[axis] * PctDen =
                      h * PctDen + (IF byPercentage >= byMinimum THEN byPercentage
                                                                 ELSE byMinimum)

\* C1 witness: a World whose margin is the percentage on one axis and the minimum
\* margin on another
C1_Witness ==
    /\ WorldBuilt
    /\ \E axis \in 1..3 :
          ReportedExtent(axis) * ConfiguredPercentage > ConfiguredMinimumMargin[axis] * PctDen
    /\ \E axis \in 1..3 :
          ReportedExtent(axis) * ConfiguredPercentage < ConfiguredMinimumMargin[axis] * PctDen

\* C2: the World box encloses every coordinate between the reported minimum and
\* maximum, on each axis, whatever the margins configured.
C2_WorldEncloses ==
    WorldBuilt =>
        \A axis \in 1..3 :
            \A c \in geo_manager_.min[axis]..geo_manager_.max[axis] :
                Abs(c) <= WorldBox.dims[axis]

\* C3: with the same coordinates and minimum margins, a larger
\* world_margin_percentage never gives a smaller half-extent on any axis: the
\* World built is no larger than the one any larger percentage gives and no
\* smaller than the one any smaller percentage gives.
C3_MonotoneInPercentage ==
    WorldBuilt =>
        \A axis \in 1..3 : \A other \in Percentages \cup {1} :
            LET half == HalfWorldSize(geo_manager_.min, geo_manager_.max, other,
                                      ConfiguredMinimumMargin, axis)
            IN  /\ ConfiguredPercentage <= other => WorldBox.dims[axis] <= half
                /\ other <= ConfiguredPercentage => half <= WorldBox.dims[axis]

\* C3 witness: a World that a larger percentage makes strictly larger on some axis
C3_Witness ==
    /\ WorldBuilt
    /\ \E axis \in 1..3 : \E other \in Percentages :
          /\ ConfiguredPercentage < other
          /\ WorldBox.dims[axis] < HalfWorldSize(geo_manager_.min, geo_manager_.max, other,
                                                 ConfiguredMinimumMargin, axis)

\* C4: when the reported coordinates give a zero half-extent on every axis,
\* Construct() fails with EmptyGeometryError and creates no World solid or volume.
C4_EmptyGeometryFails ==
    (pc # "init" /\ \A axis \in 1..3 : ReportedExtent(axis) = 0) =>
        /\ pc = "failed"
        /\ error.type = "EmptyGeometryError"
        /\ solids_ = <<>>
        /\ world_log_ = <<>>

\* the types of passive item for which build() creates a filling volume
FilledTypes == {"cylinder", "tube", "sphere"}

\* C5: every Volume build() creates for a passive item is bound to a material of
\* the registry, the shell to the one registered under the configured `material`;
\* when `material` or `filling_material` names no material of the registry,
\* build() fails and creates no Volume.
C5_PassiveMaterialResolved ==
    passive_pc # "init" =>
        /\ \A i \in DOMAIN passive_volumes :
              passive_volumes[i].material \in Range(materials_)
        /\ Has(passive_config_, "material") =>
              IF ToLower(passive_config_.values["material"]) \in DOMAIN materials_
              THEN passive_pc = "built" =>
                      passive_volumes[1].material =
                          materials_[ToLower(passive_config_.values["material"])]
              ELSE passive_pc = "failed" /\ passive_volumes = <<>>
        /\ ( /\ Has(passive_config_, "filling_material")
             /\ passive_config_.values["type"] \in FilledTypes
             /\ passive_config_.values["filling_material"] \notin DOMAIN materials_ )
           => passive_pc = "failed" /\ passive_volumes = <<>>

RegistryNames == {"vacuum", "air", "silicon", "epoxy", "kapton", "copper", "solder"}

\* the support layers of the detectors, as (detector, index of the layer)
SupportLayerPlaces ==
    {<<i, k>> \in (DOMAIN geo_manager_.detectors) \X (1..MaxLayers + 1) :
        k <= Len(geo_manager_.detectors[i].model.supportLayers)}

LayerAt(place) == geo_manager_.detectors[place[1]].model.supportLayers[place[2]]

\* the name build_detectors gives the Volume (kind "log") or the Placement
\* (kind "phys") of a support layer
SupportObjectName(place, kind) ==
    "support_" \o geo_manager_.detectors[place[1]].name \o "_" \o kind \o "_"
        \o ToString(place[2] - 1)

\* C6: the Volume of every support layer is bound to the material the registry
\* holds under the layer's own material name; when the registry holds none,
\* construction fails and no Volume or Placement is created for that layer.
C6_SupportMaterial ==
    /\ pc = "constructed" =>
          \A place \in SupportLayerPlaces :
              /\ LayerAt(place).material \in DOMAIN materials_
              /\ \E v \in Range(logical_volumes) : v.name = SupportObjectName(place, "log")
              /\ \A v \in Range(logical_volumes) :
                    v.name = SupportObjectName(place, "log") =>
                        v.material = materials_[LayerAt(place).material]
    /\ pc # "init" =>
          \A place \in SupportLayerPlaces :
              LayerAt(place).material \notin RegistryNames =>
                  /\ pc = "failed"
                  /\ error # NoError
                  /\ \A v \in Range(logical_volumes) :
                        v.name # SupportObjectName(place, "log")
                  /\ \A v \in Range(physical_volumes) :
                        v.name # SupportObjectName(place, "phys")

\* C7: when the configured world_material is no name of the registry, Construct()
\* fails before any solid is appended and before any volume is created; when it
\* is one, the World volume is bound to the material registered under that name.
C7_WorldMaterialChecked ==
    pc # "init" =>
        LET name == Get(config_, "world_material", "air")
        IN  IF name \notin RegistryNames
            THEN /\ pc = "failed"
                 /\ error.type = "InvalidValueError"
                 /\ solids_ = <<>>
                 /\ world_log_ = <<>> /\ world_phys_ = <<>>
                 /\ logical_volumes = <<>> /\ physical_volumes = <<>>
            ELSE /\ world_log_ # <<>>
                 /\ DOMAIN materials_ = RegistryNames
                 /\ world_log_[1].material = materials_[name]
                 /\ world_material_ = materials_[name]

\* C7 witness: Construct() has failed on the world material
C7_Witness ==
    /\ pc = "failed"
    /\ error = [type |-> "InvalidValueError",
                carries |-> <<"GeometryBuilderGeant4", "world_material">>]
    /\ Get(config_, "world_material", "air") = "iron"

\* C8: the solids of the solid list have pairwise distinct names, after any
\* build of detectors with pairwise distinct names.
C8_SolidNamesDistinct ==
    pc # "init" =>
        \A i, j \in DOMAIN solids_ : i # j => solids_[i].name # solids_[j].name

\* every solid the list's boolean solids point to, and every solid a volume is
\* made of, is in the list
AllListed(list, volumes) ==
    /\ \A s \in Range(list) : \A k \in DOMAIN s.operands : s.operands[k] \in Range(list)
    /\ \A v \in Range(volumes) :
          /\ v.solid \in Range(list)
          /\ \A k \in DOMAIN v.solid.operands : v.solid.operands[k] \in Range(list)

\* C9: when a build returns, every solid it created, the operands of every
\* subtraction and union included, is in the solid list.
C9_CreatedSolidsListed ==
    /\ pc = "constructed" => AllListed(solids_, logical_volumes)
    /\ passive_pc = "built" => AllListed(passive_solids_, passive_volumes)

\* the subtraction solids created so far
Subtractions ==
    {s \in Range(solids_) \cup {passive_volumes[i].solid : i \in DOMAIN passive_volumes} :
        s.type = "G4SubtractionSolid"}

\* C10: in every subtraction built, the cutting solid's extent along z is
\* strictly greater than the base solid's.
C10_CutterExceedsBase ==
    \A s \in Subtractions : 2 * s.operands[2].dims[3] > 2 * s.operands[1].dims[3]

\* the periodic placements registered so far
PeriodicPlacements == {pv \in Range(physical_volumes) : pv.type = "G4PVParameterised"}

\* the pixel placement and the bump placement of a detector
PixelPlacements(name) ==
    {pv \in PeriodicPlacements : pv.name = PixelNameSecond(name) \o "phys"}

BumpPlacements(name) ==
    {pv \in PeriodicPlacements : pv.name = BumpNameSecond(name) \o "phys"}

\* the cells the instances of a periodic placement are placed in
GridCells(pv) == {ComputeTransformation(pv.param[1], k) : k \in 0 .. pv.count - 1}

\* the detectors of the setup
Detectors == Range(geo_manager_.detectors)

\* C11: for a detector of pixel count (N, M), N and M at least 1, the instances
\* 0 .. N*M-1 of its periodic placements are placed in the cells of
\* {0..N-1} x {0..M-1}, every cell once, also when N differs from M.
C11_GridBijection ==
    pc = "constructed" =>
        \A d \in Detectors :
            LET n == d.model.nPixels
            IN  n[1] >= 1 /\ n[2] >= 1 =>
                    /\ PixelPlacements(d.name) # {}
                    /\ \A pv \in PixelPlacements(d.name) \cup BumpPlacements(d.name) :
                          /\ GridCells(pv) = (0 .. n[1] - 1) \X (0 .. n[2] - 1)
                          /\ Cardinality(GridCells(pv)) = pv.count

\* a hybrid detector of 2 x 3 and one of 3 x 1 pixels have been built
C11_Witness ==
    /\ pc = "constructed"
    /\ \E d \in Detectors :
          /\ d.model.nPixels \in {<<2, 3>>, <<3, 1>>}
          /\ d.model.hybrid
          /\ PixelPlacements(d.name) # {}
          /\ BumpPlacements(d.name) # {}

\* C12: a build with a detector whose pixel count is zero or negative on an axis
\* fails with InvalidGridSize and registers no periodic placement.
C12_InvalidGridSizeFails ==
    (pc # "init" /\ \E d \in Detectors : d.model.nPixels[1] <= 0 \/ d.model.nPixels[2] <= 0) =>
        /\ pc = "failed"
        /\ error.type = "InvalidGridSize"
        /\ PeriodicPlacements = {}

\* C13: the pixel placement of every detector built lies in the detector's
\* sensor volume and has nPixels.x * nPixels.y instances, the pixel pitch as
\* pitch and (-gridSize.x/2, -gridSize.y/2) as origin.
C13_PixelPlacement ==
    pc = "constructed" =>
        \A d \in Detectors :
            /\ Cardinality(PixelPlacements(d.name)) = 1
            /\ \A pv \in PixelPlacements(d.name) :
                  /\ pv.mother[1].name = BoxNameSecond(d.name) \o "_log"
                  /\ pv.mother[1] \in Range(logical_volumes)
                  /\ pv.count = d.model.nPixels[1] * d.model.nPixels[2]
                  /\ pv.param[1].size_x = d.model.pixelSize[1]
                  /\ pv.param[1].size_y = d.model.pixelSize[2]
                  /\ 2 * pv.param[1].offset_x = -d.model.gridSize[1]
                  /\ 2 * pv.param[1].offset_y = -d.model.gridSize[2]

\* a detector of 2 x 3 pixels of pitch 50 x 50 has been built
C13_Witness ==
    /\ pc = "constructed"
    /\ \E d \in Detectors, pv \in PeriodicPlacements :
          /\ d.model.nPixels = <<2, 3>>
          /\ d.model.pixelSize = <<50, 50>>
          /\ pv \in PixelPlacements(d.name)
          /\ pv.count = 6
          /\ pv.param[1].offset_x = -50
          /\ pv.param[1].offset_y = -75

\* the names of the solids made for the bumps of a detector
BumpSolidNames == {BumpName \o "sphere", BumpName \o "tube", BumpName, BumpBoxName}

\* the positions of the solid list that hold a bump solid
BumpSolids == {i \in DOMAIN solids_ : solids_[i].name \in BumpSolidNames}

\* the bump volumes and the placement of the bump wrapper of a detector
BumpVolumes(name) ==
    {i \in DOMAIN logical_volumes :
        logical_volumes[i].name = BumpBoxNameSecond(name) \o "_log"}

BumpWrapperPlacements(name) ==
    {pv \in Range(physical_volumes) : pv.name = BumpBoxNameSecond(name) \o "_phys"}

HybridDetectors == {i \in DOMAIN geo_manager_.detectors : geo_manager_.detectors[i].model.hybrid}

\* C14: after a build, a detector has a bump periodic placement exactly when its
\* model is a hybrid one, and that placement has nPixels.x * nPixels.y
\* instances; a model that is not hybrid gets no bump solid, volume or
\* placement, and a build of such models with known materials raises no error.
C14_BumpsIffHybrid ==
    /\ pc = "constructed" =>
          /\ \A d \in Detectors :
                IF d.model.hybrid
                THEN /\ Cardinality(BumpPlacements(d.name)) = 1
                     /\ \A pv \in BumpPlacements(d.name) :
                           pv.count = d.model.nPixels[1] * d.model.nPixels[2]
                ELSE /\ BumpPlacements(d.name) = {}
                     /\ BumpVolumes(d.name) = {}
                     /\ BumpWrapperPlacements(d.name) = {}
          /\ Cardinality(BumpSolids) = 4 * Cardinality(HybridDetectors)
    /\ ( /\ pc # "init"
         /\ HybridDetectors = {}
         /\ MaterialFound(init_materials, WorldMaterialName(config_))
         /\ \A d \in Detectors : \A l \in Range(d.model.supportLayers) :
               MaterialFound(init_materials, l.material) )
       => pc = "constructed" /\ error = NoError

\* a hybrid detector and one that is not have been built in one setup
C14_Witness ==
    /\ pc = "constructed"
    /\ \E d, e \in Detectors :
          /\ d.model.hybrid /\ BumpPlacements(d.name) # {}
          /\ ~e.model.hybrid /\ BumpPlacements(e.name) = {}
    /\ Cardinality(BumpSolids) = 4

\* the passive item is a tube whose inner diameter is at least its outer
\* diameter on x or on y
BadTube ==
    /\ Has(passive_config_, "type")
    /\ passive_config_.values["type"] = "tube"
    /\ LET inner == Get(passive_config_, "inner_diameter", <<0, 0>>)
           outer == Get(passive_config_, "outer_diameter", <<0, 0>>)
       IN  inner[1] >= outer[1] \/ inner[2] >= outer[2]

\* C15: build() of a tube whose inner diameter is at least its outer diameter on
\* x or on y (its orientation_mode being a known one) fails with the error of
\* the tube's dimensions, with no solid appended and no volume or placement made.
C15_BadTubeFails ==
    ( /\ passive_pc # "init"
      /\ BadTube
      /\ Get(passive_config_, "orientation_mode", "xyz") \in {"xyz", "zyx", "zxz"} )
    => /\ passive_pc = "failed"
       /\ passive_error = [type |-> "ModuleError", carries |-> <<passive_config_.name>>]
       /\ passive_solids_ = <<>>
       /\ passive_volumes = <<>>
       /\ passive_placements = <<>>

\* build() has been called on a tube that is too narrow on y only, and on one
\* whose inner diameter equals the outer one on x
C15_Witness ==
    /\ passive_pc = "failed"
    /\ BadTube
    /\ Get(passive_config_, "inner_diameter", <<0, 0>>) \in {<<20, 60>>, <<40, 20>>}
    /\ passive_error.type = "ModuleError"

\* C16: build() of a passive item of any type whose orientation_mode is none of
\* xyz, zyx and zxz fails with the error of that key and creates no solid, volume
\* or placement; built without orientation_mode, the item is placed with the
\* rotation of the xyz convention.
C16_OrientationModeChecked ==
    passive_pc # "init" =>
        /\ ( /\ Has(passive_config_, "orientation_mode")
             /\ passive_config_.values["orientation_mode"] \notin {"xyz", "zyx", "zxz"} )
           => /\ passive_pc = "failed"
              /\ passive_error.type = "InvalidValueError"
              /\ passive_error.carries[2] = "orientation_mode"
              /\ passive_solids_ = <<>>
              /\ passive_volumes = <<>>
              /\ passive_placements = <<>>
        /\ (passive_pc = "built" /\ ~Has(passive_config_, "orientation_mode"))
           => /\ passive_placements # <<>>
              /\ \A i \in DOMAIN passive_placements :
                    passive_placements[i].rot =
                        <<[rotation |-> "RotationZ", angles |-> <<0>>],
                          [rotation |-> "RotationY", angles |-> <<0>>],
                          [rotation |-> "RotationX", angles |-> <<0>>]>>

\* build() has failed on a sphere with an unknown orientation_mode
C16_Witness ==
    /\ passive_pc = "failed"
    /\ passive_config_.values["type"] = "sphere"
    /\ Has(passive_config_, "orientation_mode")
    /\ passive_config_.values["orientation_mode"] = "yxz"
    /\ passive_error.type = "InvalidValueError"

\* the corners of the bounding box of the passive item, moved to its position
BoundingCorners ==
    LET c == Get(passive_config_, "position", <<0, 0, 0>>)
        h == BoundingHalfSize(passive_config_)
    IN  {<<c[1] + sx * h[1], c[2] + sy * h[2], c[3] + sz * h[3]>> :
            sx \in {-1, 1}, sy \in {-1, 1}, sz \in {-1, 1}}

\* C17: every call of addPoints(), a second one on the same item included,
\* returns eight points, the corners of the item's bounding box at its position.
C17_EightCornerPoints ==
    calls >= 1 =>
        /\ Len(returned_points) = 8
        /\ Range(returned_points) = BoundingCorners

\* the detectors of the setup in the order p, a permutation of their positions
Permuted(detectors, p) == [i \in DOMAIN detectors |-> detectors[p[i]]]

\* what Construct() creates in the world of this state when the geometry
\* manager hands out the detectors in the order p
BuiltInOrder(p) ==
    LET built == build_detectors(materials_, world_material_, world_log_[1],
                     Permuted(geo_manager_.detectors, p), <<world_log_[1].solid>>,
                     [n \in DOMAIN external_objects |-> <<>>])
    IN  [solids |-> built.solids, lvs |-> world_log_ \o built.lvs,
         pvs |-> world_phys_ \o built.pvs, external |-> built.external,
         error |-> built.error]

\* what this state holds of the same
BuiltHere ==
    [solids |-> solids_, lvs |-> logical_volumes, pvs |-> physical_volumes,
     external |-> external_objects, error |-> error]

SolidsOf(list) == {[name |-> s.name, type |-> s.type, dims |-> s.dims] : s \in Range(list)}

VolumesOf(list) ==
    {[name |-> v.name, solid |-> v.solid.name, material |-> v.material] : v \in Range(list)}

PlacementsOf(list) ==
    {[parent |-> [k \in DOMAIN pv.mother |-> pv.mother[k].name], child |-> pv.logical.name,
      position |-> pv.pos, count |-> pv.count] : pv \in Range(list)}

\* the same solids, volumes, placements and handles of every detector
SameOutput(a, b) ==
    /\ SolidsOf(a.solids) = SolidsOf(b.solids)
    /\ VolumesOf(a.lvs) = VolumesOf(b.lvs)
    /\ PlacementsOf(a.pvs) = PlacementsOf(b.pvs)
    /\ a.external = b.external

DetectorOrders == Permutations(DOMAIN geo_manager_.detectors)

PeriodicKeys == {"pixel_param_internal", "pixel_param", "bumps_param"}

\* the object is held by the store of the detector under one of the keys
Retrievable(name, object) ==
    \E k \in PeriodicKeys \cap DOMAIN external_objects[name] :
        external_objects[name][k] = object

\* C19: after the build every periodic placement of a detector and the rule it
\* places by are held by the detector's store, none overwritten by another
\* object stored under the same key.
C19_HandlesRetrievable ==
    pc = "constructed" =>
        \A d \in Detectors :
            \A pv \in PixelPlacements(d.name) \cup BumpPlacements(d.name) :
                /\ Retrievable(d.name, pv)
                /\ Retrievable(d.name, pv.param[1])

\* C20: every error raised carries the configured name of what it is about: the
\* error of an unknown support material the name of a detector of the setup,
\* the errors of build() the name of the passive item, the error of the world
\* material the name of the builder's configuration.
C20_ErrorsCarryName ==
    /\ error.type = "ModuleError" =>
          \E d \in Detectors : d.name \in Range(error.carries)
    /\ error.type = "InvalidValueError" => config_.name \in Range(error.carries)
    /\ passive_error # NoError => passive_config_.name \in Range(passive_error.carries)

\* C21: the shell volume build() creates for a passive item that has no
\* `material` key is bound to the material handle of the World volume,
\* whichever material of the registry the world is made of.
C21_DefaultIsWorldMaterial ==
    (passive_pc = "built" /\ ~Has(passive_config_, "material")) =>
        /\ passive_volumes # <<>>
        /\ passive_volumes[1].material = world_log_[1].material
        /\ passive_volumes[1].material = world_material_
====
